---- MODULE Spec2Model ----
(***************************************************************************)
(* Playlist synchronisation from a source service (Spotify) to a          *)
(* destination library server (Navidrome): src/app/utils/navidrome.py,    *)
(* src/app/utils/spotify.py and src/app/run.py.                            *)
(*                                                                         *)
(* Strings are sequences of one-character strings.  Similarity ratios and  *)
(* scores are exact rationals held as integers: a ratio r is held as       *)
(* r * RatioScale and a score or threshold s as s * 10 * RatioScale.  For  *)
(* the strings and thresholds enumerated below the IEEE-754 doubles the    *)
(* program computes compare (>, >=) exactly as these exact values do.      *)
(***************************************************************************)
EXTENDS Integers, Sequences, FiniteSets, TLC

VARIABLES
    userInputs,        \* UserInputs: the configuration of the process
    playlists,         \* destination server: set of [id, name, songs, comment]
    nextPid,           \* destination server: next fresh playlist identifier
    csv,               \* artifact store: playlist name -> file content or NoFile
    pc,                \* position of the orchestrator
    runs,              \* number of playlists the for loop has taken up so far
    sp_playlists,      \* source playlists of the running cycle
    pidx,              \* index of the playlist the for loop is at
    tracks,            \* tracks fetched for the current playlist
    tidx,              \* index of the track the resolution loop is at
    available_ids,     \* _get_available_navidrome_tracks: matched identifiers
    available_id_set,  \* _get_available_navidrome_tracks: their set
    missing_tracks,    \* _get_available_navidrome_tracks: unmatched tracks
    playlist_id,       \* update_or_create_navidrome_playlist: resolved id
    calls,             \* history: collaborator calls made for the current playlist
    pre,               \* history: destination and store when the playlist began
    log,               \* history: one record per playlist processed this cycle
    raised,            \* history: origin of an exception that left the sync
    last,              \* history: the last iteration of the resolution loop
    scores,            \* the scorer tried alone: its arguments and its results
    env,               \* the environment of the process, as run.py reads it
    main               \* position and locals of main and run_sync_cycle

vars == <<env, main, scores, userInputs, playlists, nextPid, csv, pc, runs, sp_playlists, pidx,
          tracks, tidx, available_ids, available_id_set, missing_tracks,
          playlist_id, calls, pre, log, raised, last>>

----------------------------------------------------------------------------
(* Bounds of the model *)

MaxStrLen == 2
MaxTracks == 2
MaxCands == 2
MaxPlaylists == 2
MaxRuns == 2

SeqsUpTo(S, n) == UNION {[1..k -> S] : k \in 0..n}

RECURSIVE Gcd(_, _)
Gcd(a, b) == IF b = 0 THEN a ELSE Gcd(b, a % b)

RECURSIVE LcmUpTo(_)
LcmUpTo(n) == IF n <= 1 THEN 1 ELSE LET l == LcmUpTo(n - 1) IN (l * n) \div Gcd(l, n)

\* every ratio 2*m/(la+lb) with la+lb <= 2*MaxStrLen is a multiple of 1/RatioScale
RatioScale == LcmUpTo(2 * MaxStrLen)

----------------------------------------------------------------------------
(* Similarity scorer: navidrome.py lines 65-80 *)

Lower(c) == IF c = "A" THEN "a" ELSE IF c = "B" THEN "b" ELSE c

RECURSIVE LStrip(_)
LStrip(s) == IF s # <<>> /\ Head(s) = " " THEN LStrip(Tail(s)) ELSE s

RECURSIVE RStrip(_)
RStrip(s) == IF s # <<>> /\ s[Len(s)] = " " THEN RStrip(SubSeq(s, 1, Len(s) - 1)) ELSE s

\* value.lower().strip() if value else ""
_normalize(value) ==
    IF value = <<>> THEN <<>>
    ELSE RStrip(LStrip([i \in 1..Len(value) |-> Lower(value[i])]))

Count(s, c) == Cardinality({i \in 1..Len(s) : s[i] = c})

\* difflib.SequenceMatcher.quick_ratio: walk a, consuming b's letter counts
RECURSIVE QuickMatches(_, _, _, _)
QuickMatches(a, b, i, used) ==
    IF i > Len(a) THEN 0
    ELSE LET elt == a[i]
             numb == Count(b, elt) - Count(used, elt)
         IN  (IF numb > 0 THEN 1 ELSE 0) + QuickMatches(a, b, i + 1, Append(used, elt))

\* the matches are set against the length of the first string alone
quick_ratio_of_first(a, b) ==
    IF Len(a) + Len(b) = 0 THEN RatioScale
    ELSE IF Len(a) = 0 THEN 0
    ELSE (QuickMatches(a, b, 1, <<>>) * RatioScale) \div Len(a)

quick_ratio(a, b) ==
    IF Len(a) + Len(b) = 0 THEN RatioScale
    ELSE (2 * QuickMatches(a, b, 1, <<>>) * RatioScale) \div (Len(a) + Len(b))

_sequence_score(a, b) ==
    IF a = <<>> \/ b = <<>> THEN 0 ELSE quick_ratio(a, b)

WeightTitle == 6
WeightArtist == 3
WeightAlbum == 1

_score_candidate(candidate, track) ==
    LET title_score == _sequence_score(_normalize(candidate.title), _normalize(track.title))
        artist_score == _sequence_score(_normalize(candidate.artist), _normalize(track.artist))
        album_score == _sequence_score(_normalize(candidate.album), _normalize(track.album))
    IN  (title_score * WeightTitle) + (artist_score * WeightArtist) + (album_score * WeightAlbum)

----------------------------------------------------------------------------
(* Values: tracks, search candidates, search responses *)

Str1(c) == <<c>>
Str2(c, d) == <<c, d>>

Track(title, artist, album, url) ==
    [title |-> title, artist |-> artist, album |-> album, url |-> url]

Candidate(id, title, artist, album) ==
    [id |-> id, title |-> title, artist |-> artist, album |-> album]

\* Raw identifiers of a search result: "None" is an absent id, "" an empty one,
\* "#1" the integer 1, the others are strings.
IdAbsent == "None"

\* truthiness of a raw identifier (line 144)
Truthy(track_id) == track_id \notin {IdAbsent, ""}

\* str(track_id) (line 145)
str(track_id) == IF track_id = "#1" THEN "1" ELSE track_id

TA == Track(Str1("a"), <<>>, <<>>, Str1("u"))
TB == Track(Str2("a", "b"), Str1("b"), <<>>, <<>>)
TE == Track(<<>>, <<>>, Str1("a"), <<>>)

K1 == Candidate("1", Str1("a"), <<>>, <<>>)
K2 == Candidate("2", Str2("A", " "), Str1("b"), <<>>)
K3 == Candidate("#1", Str2("a", "b"), Str1("b"), <<>>)
K4 == Candidate(IdAbsent, Str1("b"), Str1("a"), <<>>)

TrackUniverse == {TA, TB, TE}
CandidateUniverse == {K1, K2, K3, K4}

\* best_candidate = None
NoCandidate == [none |-> TRUE]

\* What navidrome.search2 does: raise, or answer with searchResult2.song absent,
\* a single record, or a list of records.
SearchRaises == [kind |-> "raise", song |-> NoCandidate, songs |-> <<>>]
SearchNone == [kind |-> "none", song |-> NoCandidate, songs |-> <<>>]
SearchOne(c) == [kind |-> "one", song |-> c, songs |-> <<>>]
SearchList(cs) == [kind |-> "list", song |-> NoCandidate, songs |-> cs]

SearchOutcomes ==
    {SearchRaises, SearchNone}
        \cup {SearchOne(c) : c \in CandidateUniverse}
        \cup {SearchList(cs) : cs \in SeqsUpTo(CandidateUniverse, MaxCands)}

\* The thresholds _env_float lets through lie in [0, 1]; 0.6 is the default.
DefaultThreshold == 6 * RatioScale
Thresholds == {0, DefaultThreshold, 10 * RatioScale}

----------------------------------------------------------------------------
(* Track resolver: navidrome.py lines 83-177 *)

_ensure_iterable_songs(response) ==
    IF response.kind = "none" THEN <<>>
    ELSE IF response.kind = "list" THEN response.songs
    ELSE <<response.song>>

\* query = " ".join(part for part in [title, artist] if part)
Query(track) ==
    IF track.title # <<>> /\ track.artist # <<>>
    THEN track.title \o <<" ">> \o track.artist
    ELSE track.title \o track.artist

\* the empty query is sent to the server like any other
SearchIsCalledAlways(track) == TRUE

\* whether _search_tracks reaches navidrome.search2 (lines 94-95)
SearchIsCalled(track) == Query(track) # <<>>

_search_tracks(track, response) ==
    IF ~SearchIsCalled(track) THEN <<>>
    ELSE IF response.kind = "raise" THEN <<>>
    ELSE _ensure_iterable_songs(response)

\* _score_candidate (line 118), tabulated once over the enumerated values
ScoreTable ==
    [c \in CandidateUniverse, t \in TrackUniverse |-> _score_candidate(c, t)]

\* a candidate with an equal score replaces the earlier one
BetterOrEqual(score, best_score) == score >= best_score

\* line 119
Better(score, best_score) == score > best_score

RECURSIVE PickFrom(_, _, _, _)
PickFrom(candidates, track, i, best) ==
    IF i > Len(candidates) THEN best
    ELSE LET score == ScoreTable[candidates[i], track]
         IN  IF Better(score, best.score)
             THEN PickFrom(candidates, track, i + 1,
                           [candidate |-> candidates[i], score |-> score, index |-> i])
             ELSE PickFrom(candidates, track, i + 1, best)

\* index is the position of the selected candidate, 0 when none is selected
_pick_best_match(candidates, track) ==
    PickFrom(candidates, track, 1, [candidate |-> NoCandidate, score |-> 0, index |-> 0])

\* a score equal to the threshold is rejected
AcceptsAbove(best, threshold) == best.candidate # NoCandidate /\ best.score > threshold

\* line 142
Accepts(best, threshold) == best.candidate # NoCandidate /\ best.score >= threshold

\* the identifier set is never consulted
IsDuplicateNever(track_id_str, id_set) == FALSE

\* line 146
IsDuplicate(track_id_str, id_set) == track_id_str \in id_set

\* a track whose search brought no candidate is passed over, reported nowhere
ResolveOutcomeSkipsEmpty(best, threshold, id_set) ==
    IF best.candidate = NoCandidate THEN "duplicate"
    ELSE IF best.score >= threshold /\ Truthy(best.candidate.id)
    THEN IF str(best.candidate.id) \in id_set THEN "duplicate" ELSE "matched"
    ELSE "missing"

\* a track whose identifier is already matched is reported missing
ResolveOutcomeReportsDuplicates(best, threshold, id_set) ==
    IF best.candidate # NoCandidate /\ best.score >= threshold
          /\ Truthy(best.candidate.id) /\ str(best.candidate.id) \notin id_set
    THEN "matched"
    ELSE "missing"

\* One iteration of the loop of _get_available_navidrome_tracks (lines 138-175):
\* the outcome for one track, given the identifiers matched so far.
ResolveOutcome(best, threshold, id_set) ==
    IF Accepts(best, threshold)
    THEN IF Truthy(best.candidate.id)
         THEN IF IsDuplicate(str(best.candidate.id), id_set) THEN "duplicate" ELSE "matched"
         ELSE "missing"
    ELSE "missing"

----------------------------------------------------------------------------
(* Destination server, artifact store, source service *)

Playlist(name, description) == [name |-> name, description |-> description]

PlaylistUniverse == {Playlist("A", "d"), Playlist("B", "")}
PlaylistNames == {p.name : p \in PlaylistUniverse}

\* the tracks and search answers the whole-cycle specification draws from
SyncTrackLists == {<<>>, <<TA>>, <<TA, TB>>}
SyncSearchOutcomes == {SearchRaises, SearchOne(K1), SearchList(<<K2>>)}

NoFile == [exists |-> FALSE, header |-> FALSE, rows |-> <<>>]

NoPlaylist == [id |-> 0, name |-> "", songs |-> <<>>, comment |-> ""]

Call(op, pid, name, ids, ok) ==
    [op |-> op, pid |-> pid, name |-> name, ids |-> ids, rows |-> <<>>,
     flag |-> FALSE, ok |-> ok]

PersistCall(name, missing, enabled, io_ok) ==
    [op |-> "persist", pid |-> 0, name |-> name, ids |-> <<>>, rows |-> missing,
     flag |-> enabled, ok |-> io_ok]

\* what the search of one track came to
Failed(answer) == answer \in {"raise", "none"}

\* an environment variable that is not set
Unset == "None"

NoEnv ==
    [RUN_ONCE |-> Unset, SECONDS_TO_WAIT |-> Unset,
     NAVIDROME_BASE_URL |-> Unset, NAVIDROME_USERNAME |-> Unset,
     NAVIDROME_PASSWORD |-> Unset, SPOTIFY_CLIENT_ID |-> Unset,
     SPOTIFY_CLIENT_SECRET |-> Unset, SPOTIFY_USER_ID |-> Unset]

NoMain ==
    [pc |-> "start", cycles |-> 0, connect |-> "none", client |-> "none",
     entered |-> FALSE, result |-> TRUE]

NoScores ==
    [candidate |-> NoCandidate, track |-> TE, done |-> FALSE,
     ab |-> 0, ba |-> 0, direct |-> 0, swapped |-> 0]

NoStep ==
    [n |-> 0, track |-> TE, searched |-> FALSE, searches |-> 0, answer |-> "skipped",
     failed_before |-> FALSE, dropped |-> 0, candidates |-> <<>>,
     best |-> [candidate |-> NoCandidate, score |-> 0, index |-> 0],
     outcome |-> "none", before |-> [ids |-> <<>>, missing |-> <<>>]]

----------------------------------------------------------------------------
(* Missing-track reporter: navidrome.py lines 15-62 *)

\* line 27
Row(track) == <<track.title, track.artist, track.album, track.url>>

\* the file is opened in append mode: rows pile up after those already there
_write_csv_appending(store, missing, name) ==
    [store EXCEPT ![name] =
        [exists |-> TRUE, header |-> TRUE,
         rows |-> store[name].rows \o [i \in 1..Len(missing) |-> Row(missing[i])]]]

\* the file is opened with "w": a header row, then one csv row per track
_write_csv(store, missing, name) ==
    [store EXCEPT ![name] =
        [exists |-> TRUE, header |-> TRUE,
         rows |-> [i \in 1..Len(missing) |-> Row(missing[i])]]]

_delete_csv(store, name) ==
    IF store[name].exists THEN [store EXCEPT ![name] = NoFile] ELSE store

\* whether the reporter's I/O can go well (TRUE) or raise (FALSE): nothing is
\* written or unlinked when the reporter is disabled, or when there is nothing
\* missing and no file to delete (lines 33, 44)
IoOutcomes(store, playlist_name, missing, enabled) ==
    IF enabled /\ (missing # <<>> \/ store[playlist_name].exists) THEN BOOLEAN
    ELSE {TRUE}

\* the flag is not looked at
_persist_missing_tracks_always(store, playlist_name, missing, enabled, io_ok) ==
    IF missing # <<>>
    THEN IF io_ok THEN _write_csv(store, missing, playlist_name) ELSE store
    ELSE IF io_ok THEN _delete_csv(store, playlist_name) ELSE store

\* io_ok = FALSE: the write or the unlink raises and the file is left as it was
_persist_missing_tracks(store, playlist_name, missing, enabled, io_ok) ==
    IF ~enabled THEN store
    ELSE IF missing # <<>>
         THEN IF io_ok THEN _write_csv(store, missing, playlist_name) ELSE store
         ELSE IF io_ok THEN _delete_csv(store, playlist_name) ELSE store

----------------------------------------------------------------------------
(* Resolution batch: one iteration of the loop at navidrome.py lines 138-175 *)

ResolveTrack(outcomes) ==
    /\ pc = "resolve"
    /\ tidx <= Len(tracks)
    /\ \E response \in (IF SearchIsCalled(tracks[tidx]) THEN outcomes ELSE {SearchNone}) :
          LET track == tracks[tidx]
              candidates == _search_tracks(track, response)
              best == _pick_best_match(candidates, track)
              outcome == ResolveOutcome(best, userInputs.match_confidence_threshold,
                                        available_id_set)
              track_id_str == str(best.candidate.id)
          IN  /\ available_ids' =
                    IF outcome = "matched" THEN Append(available_ids, track_id_str)
                    ELSE available_ids
              /\ available_id_set' =
                    IF outcome = "matched" THEN available_id_set \cup {track_id_str}
                    ELSE available_id_set
              /\ missing_tracks' =
                    IF outcome = "missing" THEN Append(missing_tracks, track)
                    ELSE missing_tracks
              /\ last' = [n |-> tidx, track |-> track,
                          searched |-> SearchIsCalled(track),
                          searches |-> last.searches
                                          + (IF SearchIsCalled(track) THEN 1 ELSE 0),
                          answer |-> IF SearchIsCalled(track) THEN response.kind
                                     ELSE "skipped",
                          failed_before |-> last.failed_before \/ Failed(last.answer),
                          dropped |-> last.dropped
                                         + (IF outcome = "duplicate" THEN 1 ELSE 0),
                          candidates |-> candidates, best |-> best,
                          outcome |-> outcome,
                          before |-> [ids |-> available_ids,
                                      missing |-> missing_tracks]]
    /\ tidx' = tidx + 1
    /\ pc' = IF tidx = Len(tracks) THEN "resolved" ELSE "resolve"
    /\ UNCHANGED <<env, main, scores, userInputs, playlists, nextPid, csv, runs, sp_playlists, pidx,
                   tracks, playlist_id, calls, pre, log, raised>>

----------------------------------------------------------------------------
(* The resolution of one track list, for every list, answer and threshold *)

InitResolve ==
    /\ userInputs \in [append_instead_of_sync : {FALSE},
                       write_missing_as_csv : {FALSE},
                       add_playlist_description : {FALSE},
                       match_confidence_threshold : Thresholds]
    /\ tracks \in SeqsUpTo(TrackUniverse, MaxTracks)
    /\ pc = IF tracks = <<>> THEN "resolved" ELSE "resolve"
    /\ tidx = 1
    /\ available_ids = <<>>
    /\ available_id_set = {}
    /\ missing_tracks = <<>>
    /\ last = NoStep
    /\ scores = NoScores
    /\ env = NoEnv
    /\ main = NoMain
    /\ playlists = {}
    /\ nextPid = 1
    /\ csv = [n \in PlaylistNames |-> NoFile]
    /\ runs = 0
    /\ sp_playlists = <<>>
    /\ pidx = 0
    /\ playlist_id = 0
    /\ calls = <<>>
    /\ pre = [playlists |-> {}, csv |-> [n \in PlaylistNames |-> NoFile]]
    /\ log = <<>>
    /\ raised = "none"

NextResolve == ResolveTrack(SearchOutcomes)

SpecResolve == InitResolve /\ [][NextResolve]_vars

----------------------------------------------------------------------------
(* Playlist reconciler: navidrome.py lines 180-312 *)

\* _find_existing_playlist: the playlists a listing offers under the name;
\* none at all when getPlaylists raises (lines 183-185)
Matches(server, playlist_name, list_ok) ==
    IF list_ok THEN {p \in server : p.name = playlist_name} ELSE {}

\* the first of them in the order the server lists them, which is any of them
FoundSet(server, playlist_name, list_ok) ==
    IF Matches(server, playlist_name, list_ok) = {} THEN {NoPlaylist}
    ELSE Matches(server, playlist_name, list_ok)

\* an existing playlist is reused in replace mode too
NeedsResetNever(existing, append) == FALSE

\* line 212
NeedsReset(existing, append) == existing # NoPlaylist /\ ~append

\* a failed deletePlaylist is logged and the playlist is created all the same
_ensure_playlist_id_keeps_going(server, fresh, playlist_name, append, list_ok, existing, del_ok, create) ==
    LET listed == <<Call("list", 0, playlist_name, <<>>, list_ok)>>
        reset == NeedsReset(existing, append)
        after == IF reset
                 THEN listed \o <<Call("delete", existing.id, playlist_name, <<>>, del_ok)>>
                 ELSE listed
        kept == IF reset /\ del_ok THEN server \ {existing} ELSE server
        created == after \o <<Call("create", fresh, playlist_name, <<>>, create = "ok")>>
    IN  IF ~reset /\ existing # NoPlaylist
        THEN [result |-> "id", id |-> existing.id, server |-> server,
              fresh |-> fresh, calls |-> listed]
        ELSE IF create = "ok"
        THEN [result |-> "id", id |-> fresh,
              server |-> kept \cup {[id |-> fresh, name |-> playlist_name,
                                     songs |-> <<>>, comment |-> ""]},
              fresh |-> fresh + 1, calls |-> created]
        ELSE [result |-> IF create = "no_id" THEN "runtime_error" ELSE "raises",
              id |-> 0, server |-> kept, fresh |-> fresh, calls |-> created]

\* _ensure_playlist_id with _create_playlist (lines 194-228).  result is "id"
\* (an identifier is returned), "runtime_error" (RuntimeError, caught at line
\* 282) or "raises" (createPlaylist raised something else, caught nowhere in
\* navidrome.py or spotify.py).
_ensure_playlist_id(server, fresh, playlist_name, append, list_ok, existing, del_ok, create) ==
    LET listed == <<Call("list", 0, playlist_name, <<>>, list_ok)>>
        reset == NeedsReset(existing, append)
        deleted == listed \o <<Call("delete", existing.id, playlist_name, <<>>, del_ok)>>
        after == IF reset THEN deleted ELSE listed
        kept == IF reset THEN server \ {existing} ELSE server
        created == after \o <<Call("create", fresh, playlist_name, <<>>, create = "ok")>>
    IN  IF reset /\ ~del_ok
        THEN [result |-> "runtime_error", id |-> 0, server |-> server,
              fresh |-> fresh, calls |-> deleted]
        ELSE IF ~reset /\ existing # NoPlaylist
        THEN [result |-> "id", id |-> existing.id, server |-> server,
              fresh |-> fresh, calls |-> listed]
        ELSE IF create = "ok"
        THEN [result |-> "id", id |-> fresh,
              server |-> kept \cup {[id |-> fresh, name |-> playlist_name,
                                     songs |-> <<>>, comment |-> ""]},
              fresh |-> fresh + 1, calls |-> created]
        ELSE [result |-> IF create = "no_id" THEN "runtime_error" ELSE "raises",
              id |-> 0, server |-> kept, fresh |-> fresh, calls |-> created]

\* navidrome.updatePlaylist(lid, songIdsToAdd): the server appends the songs
AddSongs(server, pid, track_ids) ==
    {IF p.id = pid THEN [p EXCEPT !.songs = p.songs \o track_ids] ELSE p : p \in server}

\* navidrome.updatePlaylist(lid, comment)
SetComment(server, pid, text) ==
    {IF p.id = pid THEN [p EXCEPT !.comment = text] ELSE p : p \in server}

\* the early return on an empty match list is missing
NothingMatchedNever(track_ids) == FALSE

\* line 266
NothingMatched(track_ids) == track_ids = <<>>

\* the description is set whatever the playlist and the configuration say
WantsDescriptionAlways(playlist, inputs) == TRUE

\* line 296
WantsDescription(playlist, inputs) ==
    playlist.description # "" /\ inputs.add_playlist_description

----------------------------------------------------------------------------
(* Sync orchestrator: spotify.py lines 144-177 *)

CurrentPlaylist == sp_playlists[pidx]

\* the for loop of spotify_playlist_sync moves to the next playlist, or ends
NextPlaylist ==
    /\ pc' = IF pidx < Len(sp_playlists) THEN "fetch" ELSE "idle"
    /\ pidx' = IF pidx < Len(sp_playlists) THEN pidx + 1 ELSE pidx

\* an exception leaves spotify_playlist_sync; run_sync_cycle logs it (run.py 185)
Propagate(origin) ==
    /\ raised' = origin
    /\ pc' = "idle"
    /\ pidx' = pidx

\* spotify_playlist_sync is entered: _get_sp_user_playlists answers with the
\* playlists it could read, none when the listing failed at once
StartSync(universe, budget) ==
    /\ pc = "idle"
    /\ runs < budget
    /\ \E pls \in SeqsUpTo(universe, MaxPlaylists) :
          /\ Len(pls) <= budget - runs
          /\ sp_playlists' = pls
          /\ pc' = IF pls = <<>> THEN "idle" ELSE "fetch"
          /\ pidx' = IF pls = <<>> THEN 0 ELSE 1
    /\ log' = <<>>
    /\ raised' = "none"
    /\ tracks' = <<>>
    /\ tidx' = 1
    /\ available_ids' = <<>>
    /\ available_id_set' = {}
    /\ missing_tracks' = <<>>
    /\ playlist_id' = 0
    /\ calls' = <<>>
    /\ pre' = [playlists |-> playlists, csv |-> csv]
    /\ last' = NoStep
    /\ UNCHANGED <<env, scores, userInputs, playlists, nextPid, csv, runs>>

\* _get_sp_tracks_from_playlist and lines 163-172: the first page raises (an
\* empty list is returned), a later page raises (nothing catches it), or the
\* tracks arrive; an empty list skips the playlist
FetchTracks ==
    /\ pc = "fetch"
    /\ \E fetch \in {"fail_first", "fail_later", "ok"} :
       \E ts \in SyncTrackLists :
          LET outcome == IF fetch = "ok" /\ ts = <<>> THEN "empty" ELSE fetch
              got == IF fetch = "ok" THEN ts ELSE <<>>
          IN  /\ fetch # "ok" => ts = <<>>
              /\ tracks' = got
              /\ log' = Append(log, [name |-> CurrentPlaylist.name, fetch |-> outcome,
                                     ran |-> got # <<>>])
              /\ IF fetch = "fail_later" THEN Propagate("source")
                 ELSE IF got = <<>> THEN NextPlaylist /\ raised' = raised
                 ELSE pc' = "resolve" /\ pidx' = pidx /\ raised' = raised
    /\ tidx' = 1
    /\ available_ids' = <<>>
    /\ available_id_set' = {}
    /\ missing_tracks' = <<>>
    /\ playlist_id' = 0
    /\ calls' = <<>>
    /\ pre' = [playlists |-> playlists, csv |-> csv]
    /\ last' = NoStep
    /\ runs' = runs + 1
    /\ UNCHANGED <<env, main, scores, userInputs, playlists, nextPid, csv, sp_playlists>>

\* lines 259-276: nothing matched, so only the reporter runs
CheckAvailable ==
    /\ pc = "resolved"
    /\ IF NothingMatched(available_ids)
       THEN \E io_ok \in IoOutcomes(csv, CurrentPlaylist.name, missing_tracks,
                                     userInputs.write_missing_as_csv) :
               /\ csv' = _persist_missing_tracks(csv, CurrentPlaylist.name, missing_tracks,
                                                 userInputs.write_missing_as_csv, io_ok)
               /\ calls' = Append(calls, PersistCall(CurrentPlaylist.name, missing_tracks,
                                                     userInputs.write_missing_as_csv, io_ok))
               /\ NextPlaylist
       ELSE /\ pc' = "ensure"
            /\ UNCHANGED <<csv, calls, pidx>>
    /\ last' = NoStep
    /\ UNCHANGED <<env, main, scores, userInputs, playlists, nextPid, runs, sp_playlists, tracks, tidx,
                   available_ids, available_id_set, missing_tracks, playlist_id, pre,
                   log, raised>>

\* lines 278-286
EnsurePlaylistId ==
    /\ pc = "ensure"
    /\ \E list_ok \in BOOLEAN, del_ok \in BOOLEAN, create \in {"ok", "no_id", "raises"} :
       \E existing \in FoundSet(playlists, CurrentPlaylist.name, list_ok) :
          LET r == _ensure_playlist_id(playlists, nextPid, CurrentPlaylist.name,
                                       userInputs.append_instead_of_sync,
                                       list_ok, existing, del_ok, create)
          IN  /\ playlists' = r.server
              /\ nextPid' = r.fresh
              /\ calls' = calls \o r.calls
              /\ playlist_id' = r.id
              /\ IF r.result = "id" THEN pc' = "add" /\ pidx' = pidx /\ raised' = raised
                 ELSE IF r.result = "runtime_error" THEN NextPlaylist /\ raised' = raised
                 ELSE Propagate("destination")
    /\ UNCHANGED <<env, main, scores, userInputs, csv, runs, sp_playlists, tracks, tidx, available_ids,
                   available_id_set, missing_tracks, pre, log, last>>

\* the handler of a failed add logs and falls through to the report
AddTracksThenReports ==
    /\ pc = "add"
    /\ available_ids # <<>>
    /\ \E ok \in BOOLEAN :
          /\ calls' = Append(calls, Call("add", playlist_id, CurrentPlaylist.name,
                                         available_ids, ok))
          /\ playlists' = IF ok THEN AddSongs(playlists, playlist_id, available_ids)
                          ELSE playlists
          /\ pc' = IF ok THEN "describe" ELSE "persist"
    /\ UNCHANGED <<env, main, scores, userInputs, nextPid, csv, runs, sp_playlists, pidx, tracks,
                   tidx, available_ids, available_id_set, missing_tracks, playlist_id,
                   pre, log, raised, last>>

\* lines 288-294 with _add_tracks (lines 231-246)
AddTracks ==
    /\ pc = "add"
    /\ IF available_ids = <<>>
       THEN /\ pc' = "describe"
            /\ UNCHANGED <<playlists, calls, pidx>>
       ELSE \E ok \in BOOLEAN :
               /\ calls' = Append(calls, Call("add", playlist_id, CurrentPlaylist.name,
                                              available_ids, ok))
               /\ IF ok
                  THEN /\ playlists' = AddSongs(playlists, playlist_id, available_ids)
                       /\ pc' = "describe"
                       /\ pidx' = pidx
                  ELSE /\ playlists' = playlists
                       /\ NextPlaylist
    /\ UNCHANGED <<env, main, scores, userInputs, nextPid, csv, runs, sp_playlists, tracks, tidx,
                   available_ids, available_id_set, missing_tracks, playlist_id, pre,
                   log, raised, last>>

\* lines 296-306: a failure is logged and nothing else
SetDescription ==
    /\ pc = "describe"
    /\ IF WantsDescription(CurrentPlaylist, userInputs)
       THEN \E ok \in BOOLEAN :
               /\ calls' = Append(calls, Call("describe", playlist_id,
                                              CurrentPlaylist.name, <<>>, ok))
               /\ playlists' = IF ok THEN SetComment(playlists, playlist_id,
                                                     CurrentPlaylist.description)
                               ELSE playlists
       ELSE UNCHANGED <<calls, playlists>>
    /\ pc' = "persist"
    /\ UNCHANGED <<env, main, scores, userInputs, nextPid, csv, runs, sp_playlists, pidx, tracks, tidx,
                   available_ids, available_id_set, missing_tracks, playlist_id, pre,
                   log, raised, last>>

\* lines 308-312
PersistMissing ==
    /\ pc = "persist"
    /\ \E io_ok \in IoOutcomes(csv, CurrentPlaylist.name, missing_tracks,
                                userInputs.write_missing_as_csv) :
          /\ csv' = _persist_missing_tracks(csv, CurrentPlaylist.name, missing_tracks,
                                            userInputs.write_missing_as_csv, io_ok)
          /\ calls' = Append(calls, PersistCall(CurrentPlaylist.name, missing_tracks,
                                                userInputs.write_missing_as_csv, io_ok))
    /\ NextPlaylist
    /\ UNCHANGED <<env, main, scores, userInputs, playlists, nextPid, runs, sp_playlists, tracks, tidx,
                   available_ids, available_id_set, missing_tracks, playlist_id, pre,
                   log, raised, last>>

Init ==
    /\ userInputs \in [append_instead_of_sync : BOOLEAN,
                       write_missing_as_csv : BOOLEAN,
                       add_playlist_description : BOOLEAN,
                       match_confidence_threshold : {DefaultThreshold}]
    /\ playlists = {}
    /\ nextPid = 1
    /\ csv = [n \in PlaylistNames |-> NoFile]
    /\ pc = "idle"
    /\ runs = 0
    /\ sp_playlists = <<>>
    /\ pidx = 0
    /\ tracks = <<>>
    /\ tidx = 1
    /\ available_ids = <<>>
    /\ available_id_set = {}
    /\ missing_tracks = <<>>
    /\ playlist_id = 0
    /\ calls = <<>>
    /\ pre = [playlists |-> {}, csv |-> [n \in PlaylistNames |-> NoFile]]
    /\ log = <<>>
    /\ raised = "none"
    /\ last = NoStep
    /\ scores = NoScores
    /\ env = NoEnv
    /\ main = NoMain

Next ==
    \/ (StartSync(PlaylistUniverse, MaxRuns) /\ UNCHANGED main)
    \/ FetchTracks
    \/ ResolveTrack(SyncSearchOutcomes)
    \/ CheckAvailable
    \/ EnsurePlaylistId
    \/ AddTracks
    \/ SetDescription
    \/ PersistMissing

Spec == Init /\ [][Next]_vars

\* Replace-mode cycles on one playlist, one more playlist run than Spec allows
InitRepair ==
    /\ Init
    /\ ~userInputs.append_instead_of_sync
    /\ ~userInputs.write_missing_as_csv
    /\ ~userInputs.add_playlist_description

NextRepair ==
    \/ (StartSync({Playlist("A", "d")}, MaxRuns + 1) /\ UNCHANGED main)
    \/ FetchTracks
    \/ ResolveTrack(SyncSearchOutcomes)
    \/ CheckAvailable
    \/ EnsurePlaylistId
    \/ AddTracks
    \/ SetDescription
    \/ PersistMissing

SpecRepair == InitRepair /\ [][NextRepair]_vars

----------------------------------------------------------------------------
(* The reporter alone: one call on any store it can have left, and the same
   call once more *)

ReportTracks == {TA, TB}

MissingLists == SeqsUpTo(ReportTracks, MaxTracks)

\* the files _write_csv leaves, and no file
Files ==
    {NoFile} \cup {[exists |-> TRUE, header |-> TRUE,
                    rows |-> [i \in 1..Len(m) |-> Row(m[i])]] :
                       m \in MissingLists \ {<<>>}}

InitReporter ==
    /\ userInputs \in [append_instead_of_sync : {FALSE},
                       write_missing_as_csv : BOOLEAN,
                       add_playlist_description : {FALSE},
                       match_confidence_threshold : {DefaultThreshold}]
    /\ csv \in [PlaylistNames -> Files]
    /\ pre = [playlists |-> {}, csv |-> csv]
    /\ pc = "report"
    /\ calls = <<>>
    /\ playlists = {}
    /\ nextPid = 1
    /\ runs = 0
    /\ sp_playlists = <<>>
    /\ pidx = 0
    /\ tracks = <<>>
    /\ tidx = 1
    /\ available_ids = <<>>
    /\ available_id_set = {}
    /\ missing_tracks = <<>>
    /\ playlist_id = 0
    /\ log = <<>>
    /\ raised = "none"
    /\ last = NoStep
    /\ scores = NoScores
    /\ env = NoEnv
    /\ main = NoMain

\* _persist_missing_tracks(playlist_name, missing_tracks, enabled)
Persist ==
    /\ pc = "report"
    /\ calls = <<>>
    /\ \E name \in PlaylistNames, missing \in MissingLists :
       \E io_ok \in IoOutcomes(csv, name, missing, userInputs.write_missing_as_csv) :
          /\ csv' = _persist_missing_tracks(csv, name, missing,
                                            userInputs.write_missing_as_csv, io_ok)
          /\ calls' = <<PersistCall(name, missing, userInputs.write_missing_as_csv, io_ok)>>
    /\ pre' = [pre EXCEPT !.csv = csv]
    /\ UNCHANGED <<env, main, scores, userInputs, playlists, nextPid, pc, runs, sp_playlists, pidx, tracks,
                   tidx, available_ids, available_id_set, missing_tracks, playlist_id,
                   log, raised, last>>

\* the same call, with the same arguments, a second time
PersistAgain ==
    /\ pc = "report"
    /\ Len(calls) = 1
    /\ \E io_ok \in IoOutcomes(csv, calls[1].name, calls[1].rows, calls[1].flag) :
          /\ csv' = _persist_missing_tracks(csv, calls[1].name, calls[1].rows,
                                            calls[1].flag, io_ok)
          /\ calls' = Append(calls, PersistCall(calls[1].name, calls[1].rows,
                                                calls[1].flag, io_ok))
    /\ pre' = [pre EXCEPT !.csv = csv]
    /\ UNCHANGED <<env, main, scores, userInputs, playlists, nextPid, pc, runs, sp_playlists, pidx, tracks,
                   tidx, available_ids, available_id_set, missing_tracks, playlist_id,
                   log, raised, last>>

NextReporter == Persist \/ PersistAgain

SpecReporter == InitReporter /\ [][NextReporter]_vars

----------------------------------------------------------------------------
(* The scorer alone: one candidate and one track, scored as given and with
   their title, artist and album exchanged *)

Alphabet == {"a", "b", "A", " "}

Strings == SeqsUpTo(Alphabet, MaxStrLen)

\* artists and albums of the candidate and of the track
ArtistPairs ==
    {<< <<>>, <<>> >>, <<Str1("a"), Str2("a", "b")>>, <<Str1("b"), <<>> >>,
     <<Str2("A", " "), Str1("a")>>}

AlbumPairs == {<< <<>>, <<>> >>, <<Str1("a"), Str2("b", "a")>>}

\* the candidate that carries the track's fields, and the track that carries
\* the candidate's
SwappedCandidate(candidate, track) ==
    Candidate(candidate.id, track.title, track.artist, track.album)

SwappedTrack(candidate, track) ==
    Track(candidate.title, candidate.artist, candidate.album, track.url)

InitScore ==
    /\ \E a \in Strings, b \in Strings, ar \in ArtistPairs, al \in AlbumPairs :
          scores = [NoScores EXCEPT !.candidate = Candidate("1", a, ar[1], al[1]),
                                    !.track = Track(b, ar[2], al[2], <<>>)]
    /\ userInputs \in [append_instead_of_sync : {FALSE},
                       write_missing_as_csv : {FALSE},
                       add_playlist_description : {FALSE},
                       match_confidence_threshold : {DefaultThreshold}]
    /\ playlists = {}
    /\ nextPid = 1
    /\ csv = [n \in PlaylistNames |-> NoFile]
    /\ pc = "score"
    /\ runs = 0
    /\ sp_playlists = <<>>
    /\ pidx = 0
    /\ tracks = <<>>
    /\ tidx = 1
    /\ available_ids = <<>>
    /\ available_id_set = {}
    /\ missing_tracks = <<>>
    /\ playlist_id = 0
    /\ calls = <<>>
    /\ pre = [playlists |-> {}, csv |-> [n \in PlaylistNames |-> NoFile]]
    /\ log = <<>>
    /\ raised = "none"
    /\ last = NoStep
    /\ env = NoEnv
    /\ main = NoMain

\* _sequence_score on the two titles as they are, both ways round, and
\* _score_candidate on the pair and on the exchanged pair
Score ==
    /\ pc = "score"
    /\ ~scores.done
    /\ scores' =
          [scores EXCEPT
              !.done = TRUE,
              !.ab = _sequence_score(scores.candidate.title, scores.track.title),
              !.ba = _sequence_score(scores.track.title, scores.candidate.title),
              !.direct = _score_candidate(scores.candidate, scores.track),
              !.swapped = _score_candidate(SwappedCandidate(scores.candidate, scores.track),
                                           SwappedTrack(scores.candidate, scores.track))]
    /\ UNCHANGED <<env, main, userInputs, playlists, nextPid, csv, pc, runs, sp_playlists,
                   pidx, tracks, tidx, available_ids, available_id_set, missing_tracks,
                   playlist_id, calls, pre, log, raised, last>>

NextScore == Score

SpecScore == InitScore /\ [][NextScore]_vars

----------------------------------------------------------------------------
(* Entry point: run.py lines 13-31, 85, 107-212 *)

\* the values the environment variables are drawn from
FlagValues == {Unset, "1", "TRUE", " on ", "no"}
WaitValues == {Unset, "0", "-5"}
SettingValues == {Unset, "", "x"}

\* str(value).strip().lower(), on the values above
StripLower(value) ==
    CASE value = "TRUE" -> "true"
      [] value = " on " -> "on"
      [] OTHER -> value

\* every value but an unset variable counts as set
_env_flag_set(value, default) == value # Unset

\* lines 13-17
_env_flag(value, default) ==
    StripLower(IF value = Unset THEN default ELSE value) \in {"1", "true", "yes", "on"}

\* int(value), on the values above that are integers
IntOf(value) == CASE value = "0" -> 0 [] value = "-5" -> 0 - 5 [] OTHER -> 0

\* lines 20-30
_env_int(value, default) ==
    IF value = Unset THEN default
    ELSE IF value \in {"0", "-5"} THEN IntOf(value)
    ELSE default

DefaultWait == 86400

\* line 85
wait_seconds ==
    IF _env_int(env.SECONDS_TO_WAIT, DefaultWait) > 0
    THEN _env_int(env.SECONDS_TO_WAIT, DefaultWait)
    ELSE 0

\* line 197
run_forever == ~_env_flag(env.RUN_ONCE, "0")

\* lines 107-121
_has_required_navidrome_inputs ==
    /\ Truthy(env.NAVIDROME_BASE_URL)
    /\ Truthy(env.NAVIDROME_USERNAME)
    /\ Truthy(env.NAVIDROME_PASSWORD)

\* lines 158-162
HasSpotifyInputs ==
    /\ Truthy(env.SPOTIFY_CLIENT_ID)
    /\ Truthy(env.SPOTIFY_CLIENT_SECRET)
    /\ Truthy(env.SPOTIFY_USER_ID)

MaxCycles == 3

InitMain ==
    /\ env \in [RUN_ONCE : FlagValues, SECONDS_TO_WAIT : WaitValues,
                NAVIDROME_BASE_URL : SettingValues, NAVIDROME_USERNAME : SettingValues,
                NAVIDROME_PASSWORD : SettingValues, SPOTIFY_CLIENT_ID : SettingValues,
                SPOTIFY_CLIENT_SECRET : SettingValues, SPOTIFY_USER_ID : SettingValues]
    /\ main = [NoMain EXCEPT !.pc = "loop"]
    /\ userInputs \in [append_instead_of_sync : {FALSE},
                       write_missing_as_csv : {FALSE},
                       add_playlist_description : {FALSE},
                       match_confidence_threshold : {DefaultThreshold}]
    /\ playlists = {}
    /\ nextPid = 1
    /\ csv = [n \in PlaylistNames |-> NoFile]
    /\ pc = "idle"
    /\ runs = 0
    /\ sp_playlists = <<>>
    /\ pidx = 0
    /\ tracks = <<>>
    /\ tidx = 1
    /\ available_ids = <<>>
    /\ available_id_set = {}
    /\ missing_tracks = <<>>
    /\ playlist_id = 0
    /\ calls = <<>>
    /\ pre = [playlists |-> {}, csv |-> [n \in PlaylistNames |-> NoFile]]
    /\ log = <<>>
    /\ raised = "none"
    /\ last = NoStep
    /\ scores = NoScores

SyncVars ==
    <<userInputs, playlists, nextPid, csv, pc, runs, sp_playlists, pidx, tracks, tidx,
      available_ids, available_id_set, missing_tracks, playlist_id, calls, pre, log,
      raised, last>>

\* main line 200 calls run_sync_cycle, which checks its inputs (lines 126-127)
BeginCycle ==
    /\ main.pc = "loop"
    /\ main.cycles < MaxCycles
    /\ main' = [pc |-> IF _has_required_navidrome_inputs THEN "connect" ELSE "returned",
                cycles |-> main.cycles + 1, connect |-> "none", client |-> "none",
                entered |-> FALSE, result |-> _has_required_navidrome_inputs]
    /\ UNCHANGED <<env, scores>>
    /\ UNCHANGED SyncVars

\* lines 143-154: Connection(...) and ping() go through, whatever ping
\* answers, or one of them raises
Connect ==
    /\ main.pc = "connect"
    /\ \E outcome \in {"ok", "ping_false", "raises"} :
          main' = [main EXCEPT !.connect = outcome,
                               !.pc = IF outcome = "raises" THEN "returned" ELSE "client",
                               !.result = outcome # "raises"]
    /\ UNCHANGED <<env, scores>>
    /\ UNCHANGED SyncVars

\* lines 157-177: no client without the three settings or when the
\* authorisation raises; without a client lines 179-193 return True
MakeClient ==
    /\ main.pc = "client"
    /\ \E made \in (IF HasSpotifyInputs THEN {"ok", "auth_error"} ELSE {"absent"}) :
          main' = [main EXCEPT !.client = made,
                               !.pc = IF made = "ok" THEN "sync" ELSE "returned",
                               !.result = TRUE]
    /\ UNCHANGED <<env, scores>>
    /\ UNCHANGED SyncVars

\* line 181: spotify_playlist_sync is entered
EnterSync ==
    /\ main.pc = "sync"
    /\ ~main.entered
    /\ StartSync({Playlist("A", "d")}, MaxRuns)
    /\ main' = [main EXCEPT !.entered = TRUE]

InSync == main.pc = "sync" /\ main.entered

\* lines 182-193: spotify_playlist_sync has returned, or has raised an
\* Exception that is logged; run_sync_cycle returns True
SyncReturns ==
    /\ InSync
    /\ pc = "idle"
    /\ main' = [main EXCEPT !.pc = "returned", !.result = TRUE]
    /\ UNCHANGED <<env, scores>>
    /\ UNCHANGED SyncVars

\* main lines 201-212
AfterCycle ==
    /\ main.pc = "returned"
    /\ main' = [main EXCEPT !.pc = IF ~main.result THEN "exit"
                                   ELSE IF ~run_forever THEN "exit"
                                   ELSE IF wait_seconds <= 0 THEN "loop"
                                   ELSE "sleep"]
    /\ UNCHANGED <<env, scores>>
    /\ UNCHANGED SyncVars

\* line 212
Sleep ==
    /\ main.pc = "sleep"
    /\ main' = [main EXCEPT !.pc = "loop"]
    /\ UNCHANGED <<env, scores>>
    /\ UNCHANGED SyncVars

NextMain ==
    \/ BeginCycle
    \/ Connect
    \/ MakeClient
    \/ EnterSync
    \/ (InSync /\ FetchTracks)
    \/ (InSync /\ ResolveTrack(SyncSearchOutcomes))
    \/ (InSync /\ CheckAvailable)
    \/ (InSync /\ EnsurePlaylistId)
    \/ (InSync /\ AddTracks)
    \/ (InSync /\ SetDescription)
    \/ (InSync /\ PersistMissing)
    \/ SyncReturns
    \/ AfterCycle
    \/ Sleep

SpecMain == InitMain /\ [][NextMain]_vars

----------------------------------------------------------------------------
(* Vocabulary of the properties *)

Range(seq) == {seq[i] : i \in 1..Len(seq)}

NoDuplicates(seq) == \A i, j \in 1..Len(seq) : seq[i] = seq[j] => i = j

\* a playlist of the running cycle has just been dealt with
Finished == log # <<>> /\ pc \in {"fetch", "idle"}

LastLog == log[Len(log)]

\* the reconciler ran for the playlist just dealt with
Reconciled == Finished /\ LastLog.ran

\* spotify_playlist_sync has returned or raised, having had playlists to sync
SyncOver == pc = "idle" /\ sp_playlists # <<>>

CallsOf(op) == {i \in 1..Len(calls) : calls[i].op = op}

NoCallFailed == \A i \in 1..Len(calls) : calls[i].ok

Named(server, name) == {p \in server : p.name = name}

Ids(server) == {p.id : p \in server}

ReplaceMode == ~userInputs.append_instead_of_sync

\* the scores of a candidate list, computed one by one
ScoreSet(candidates, track) ==
    {_score_candidate(candidates[i], track) : i \in 1..Len(candidates)}

MaxScore(candidates, track) ==
    CHOOSE m \in ScoreSet(candidates, track) : \A x \in ScoreSet(candidates, track) : x <= m

FirstMax(candidates, track) ==
    CHOOSE i \in 1..Len(candidates) :
        /\ _score_candidate(candidates[i], track) = MaxScore(candidates, track)
        /\ \A j \in 1..(i - 1) :
              _score_candidate(candidates[j], track) # MaxScore(candidates, track)

Resolved == last.outcome \in {"matched", "duplicate"}

----------------------------------------------------------------------------
(* Properties *)

\* C1: whatever destination call fails while one playlist is reconciled, no
\* exception leaves spotify_playlist_sync and every later playlist is taken up,
\* the reconciler running for each one that has tracks.
C1_FailureIsolation ==
    (SyncOver /\ raised # "source") =>
        /\ raised = "none"
        /\ Len(log) = Len(sp_playlists)
        /\ \A i \in 1..Len(log) : log[i].fetch = "ok" => log[i].ran

\* C2: a playlist whose track fetch fails (on the first or on a later page) or
\* yields no tracks causes no destination call and no change of the missing
\* report, and the orchestrator goes on with the next playlist.
C2_FetchFailureSkips ==
    (Finished /\ LastLog.fetch \in {"fail_first", "fail_later", "empty"}) =>
        /\ calls = <<>>
        /\ playlists = pre.playlists
        /\ csv = pre.csv
        /\ raised = "none"
        /\ Len(log) < Len(sp_playlists) => pc = "fetch"

\* C3: when listing the destination playlists fails, no create, delete, add or
\* description call is issued for that playlist.
C3_ListFailureAborts ==
    \A i \in CallsOf("list") :
        ~calls[i].ok => CallsOf("create") \cup CallsOf("delete")
                            \cup CallsOf("add") \cup CallsOf("describe") = {}

\* C4 as stated: in replace mode, after a reconciliation in which no call
\* failed, an existing playlist of the name was deleted and recreated and every
\* playlist of that name holds exactly the matched identifiers, empty or not.
C4_ReplaceExactAlways ==
    (Reconciled /\ ReplaceMode /\ NoCallFailed) =>
        /\ Named(pre.playlists, LastLog.name) # {} =>
              CallsOf("delete") # {} /\ CallsOf("create") # {}
        /\ \A p \in Named(playlists, LastLog.name) : p.songs = available_ids

\* C4 amended: in replace mode, after a reconciliation with a non-empty match
\* list in which no call failed, the existing playlist of the name that the
\* listing offered has been deleted, a fresh playlist has been created after it,
\* the fresh playlist holds exactly the matched identifiers, and it is the only
\* playlist of the name when at most one existed before.
C4_ReplaceExact ==
    (Reconciled /\ ReplaceMode /\ NoCallFailed /\ available_ids # <<>>) =>
        /\ Named(pre.playlists, LastLog.name) # {} =>
              \E i \in CallsOf("delete") : \E j \in CallsOf("create") :
                  /\ i < j
                  /\ calls[i].pid \in Ids(Named(pre.playlists, LastLog.name))
                  /\ calls[i].pid \notin Ids(playlists)
        /\ playlist_id \notin Ids(pre.playlists)
        /\ \E p \in Named(playlists, LastLog.name) :
              p.id = playlist_id /\ p.songs = available_ids
        /\ Cardinality(Named(pre.playlists, LastLog.name)) <= 1 =>
              Ids(Named(playlists, LastLog.name)) = {playlist_id}

\* C4 witness: a playlist of the name held other songs and was replaced
C4_Witness ==
    /\ Reconciled /\ ReplaceMode /\ NoCallFailed /\ available_ids # <<>>
    /\ \E q \in Named(pre.playlists, LastLog.name) :
          q.songs # <<>> /\ q.songs # available_ids /\ q.id \notin Ids(playlists)

\* C5: in append mode, with an existing playlist of the name, only identifiers
\* that are not yet members of that playlist are added to it.
C5_AppendOnlyNew ==
    \A i \in CallsOf("add") :
        userInputs.append_instead_of_sync =>
            \A q \in pre.playlists :
                q.id = calls[i].pid => Range(calls[i].ids) \cap Range(q.songs) = {}

\* C6: after earlier cycles with failed calls, a replace-mode reconciliation
\* without failures and with a non-empty match list leaves exactly one playlist
\* of the name, holding exactly the matched identifiers.
C6_LaterRunRepairs ==
    (Reconciled /\ ReplaceMode /\ NoCallFailed /\ available_ids # <<>>) =>
        /\ Cardinality(Named(playlists, LastLog.name)) = 1
        /\ \A p \in Named(playlists, LastLog.name) : p.songs = available_ids

\* C7: when nothing matched, the reconciler makes no list, create, delete, add
\* or description call, the destination is as it was, and the reporter is
\* invoked exactly once, with the unmatched tracks and the configured flag.
C7_EmptyResolution ==
    (Reconciled /\ available_ids = <<>>) =>
        /\ playlists = pre.playlists
        /\ Len(calls) = 1
        /\ calls[1].op = "persist"
        /\ calls[1].name = LastLog.name
        /\ calls[1].rows = missing_tracks
        /\ calls[1].flag = userInputs.write_missing_as_csv

\* C7 witness: nothing matched while a playlist of the name exists with songs
C7_Witness ==
    /\ Reconciled /\ available_ids = <<>> /\ missing_tracks # <<>>
    /\ \E q \in Named(playlists, LastLog.name) : q.songs # <<>>

\* C8: at every step of the fold the matched identifiers are pairwise
\* distinct; a track that resolves to an identifier already matched leaves that
\* identifier present once and is added to neither list.
C8_Dedup ==
    /\ NoDuplicates(available_ids)
    /\ available_id_set = Range(available_ids)
    /\ last.outcome = "duplicate" =>
          /\ available_ids = last.before.ids
          /\ missing_tracks = last.before.missing
          /\ Cardinality({i \in 1..Len(available_ids) :
                            available_ids[i] = str(last.best.candidate.id)}) = 1

\* C8 witness: a later track resolved to an identifier matched before, through
\* a different raw identifier
C8_Witness ==
    /\ last.outcome = "duplicate"
    /\ last.n > 1
    /\ last.best.candidate.id = "#1"
    /\ available_ids = <<"1">>

Unresolved == "unresolved"

OwnAnswer(track, candidates, threshold) ==
    IF candidates = <<>> THEN Unresolved
    ELSE LET m == MaxScore(candidates, track)
             w == candidates[FirstMax(candidates, track)]
         IN  IF m >= threshold /\ m > 0 /\ Truthy(w.id) THEN str(w.id) ELSE Unresolved

\* the answer the loop acted on
LoopAnswer ==
    IF last.outcome = "missing" THEN Unresolved ELSE str(last.best.candidate.id)

\* C11: a track whose search raises or returns nothing is appended to the
\* missing tracks and matches nothing; no exception is raised and the loop goes
\* on; and every track after a failed search still gets the answer (an
\* identifier or unresolved) that its own search result determines, a new
\* identifier being appended, a known one dropped, an unresolved track reported.
C11_SearchBestEffort ==
    last.n > 0 =>
        /\ Failed(last.answer) =>
              /\ last.outcome = "missing"
              /\ missing_tracks = Append(last.before.missing, last.track)
              /\ available_ids = last.before.ids
        /\ raised = "none"
        /\ tidx = last.n + 1
        /\ pc = IF last.n < Len(tracks) THEN "resolve" ELSE "resolved"
        /\ last.failed_before =>
              LET own == OwnAnswer(last.track, last.candidates,
                                   userInputs.match_confidence_threshold)
              IN  /\ LoopAnswer = own
                  /\ own = Unresolved =>
                        /\ missing_tracks = Append(last.before.missing, last.track)
                        /\ available_ids = last.before.ids
                  /\ (own # Unresolved /\ own \notin Range(last.before.ids)) =>
                        /\ available_ids = Append(last.before.ids, own)
                        /\ missing_tracks = last.before.missing
                  /\ (own # Unresolved /\ own \in Range(last.before.ids)) =>
                        /\ available_ids = last.before.ids
                        /\ missing_tracks = last.before.missing

\* C11 witness: the first search raised, at threshold zero, and the next track
\* was matched all the same
C11_Witness ==
    /\ last.n = 2
    /\ last.failed_before
    /\ userInputs.match_confidence_threshold = 0
    /\ missing_tracks = <<tracks[1]>>
    /\ SearchIsCalled(tracks[1])
    /\ last.outcome = "matched"
    /\ available_ids = <<str(last.best.candidate.id)>>

\* C12: a track with an empty title and an empty artist is appended to the
\* missing tracks without a search call, and the search calls made so far are
\* as many as the tracks so far that have a title or an artist.
C12_EmptyQuerySkipsSearch ==
    last.n > 0 =>
        /\ (last.track.title = <<>> /\ last.track.artist = <<>>) =>
              /\ ~last.searched
              /\ last.answer = "skipped"
              /\ last.outcome = "missing"
              /\ missing_tracks = Append(last.before.missing, last.track)
              /\ available_ids = last.before.ids
        /\ last.searches = Cardinality({i \in 1..last.n :
                                tracks[i].title # <<>> \/ tracks[i].artist # <<>>})

\* C12 witness: a batch of one searched track and one track without title and
\* artist, at threshold zero
C12_Witness ==
    /\ pc = "resolved"
    /\ last.n = 2
    /\ last.track = TE
    /\ tracks[1] # TE
    /\ last.searches = 1
    /\ userInputs.match_confidence_threshold = 0
    /\ TE \in Range(missing_tracks)

\* the destination calls of the playlist in hand, in the order they were made
DestinationOps ==
    LET made == SelectSeq(calls, LAMBDA c : c.op \in {"list", "delete", "create", "add"})
    IN  [i \in 1..Len(made) |-> made[i].op]

IsPrefix(s, t) == Len(s) <= Len(t) /\ \A i \in 1..Len(s) : s[i] = t[i]

\* the playlists of the name on the server when the reconciliation began
Existing == Named(pre.playlists, LastLog.name)

\* C13: in a reconciliation with matched identifiers, in replace mode with a
\* playlist of the name on the server the destination calls are list, delete,
\* create, add in this order, as far as the reconciliation gets, and add goes
\* to the playlist this create returned; in append mode with a playlist of the
\* name on the server there is no delete and no create and add goes to an
\* existing playlist of the name; and there is never more than one delete or
\* more than one create.
C13_CallProtocol ==
    (calls # <<>> /\ available_ids # <<>>) =>
        /\ (ReplaceMode /\ Existing # {}) =>
              /\ IsPrefix(DestinationOps, <<"list", "delete", "create", "add">>)
              /\ \A i \in CallsOf("add") : \E j \in CallsOf("create") :
                    j < i /\ calls[j].ok /\ calls[i].pid = calls[j].pid
        /\ (~ReplaceMode /\ Existing # {}) =>
              /\ CallsOf("delete") = {}
              /\ CallsOf("create") = {}
              /\ \A i \in CallsOf("add") : calls[i].pid \in Ids(Existing)
        /\ Cardinality(CallsOf("delete")) <= 1
        /\ Cardinality(CallsOf("create")) <= 1

\* C13 with the listing taken to succeed
C13_CallProtocolListed ==
    (\A i \in CallsOf("list") : calls[i].ok) => C13_CallProtocol

\* the calls made after the i-th call of the playlist in hand
OpsAfter(i) == {calls[j].op : j \in (i + 1)..Len(calls)}

\* C14: after a failed deletePlaylist there is no create and no add call for
\* the playlist; after a failed createPlaylist no add; after a failed add no
\* description call; and after any of these failures no delete and no create
\* is issued to undo what was done.
C14_FatalStepsStop ==
    \A i \in 1..Len(calls) :
        ~calls[i].ok =>
            /\ calls[i].op = "delete" => OpsAfter(i) \cap {"create", "add"} = {}
            /\ calls[i].op = "create" => "add" \notin OpsAfter(i)
            /\ calls[i].op = "add" => "describe" \notin OpsAfter(i)
            /\ calls[i].op \in {"delete", "create", "add"} =>
                  OpsAfter(i) \cap {"delete", "create"} = {}

\* C14 witness: the old playlist was deleted, a new one created, and the add
\* failed: the playlist is left empty, with a description wanted and not set
C14_Witness ==
    /\ Reconciled
    /\ WantsDescription(sp_playlists[Len(log)], userInputs)
    /\ \E i \in CallsOf("delete") : calls[i].ok
    /\ \E i \in CallsOf("create") : calls[i].ok
    /\ \E i \in CallsOf("add") : ~calls[i].ok /\ i = Len(calls)
    /\ \E q \in Existing : q.songs # <<>> /\ q.id \notin Ids(playlists)
    /\ \E p \in Named(playlists, LastLog.name) : p.id = playlist_id /\ p.songs = <<>>

\* the source playlist in hand, or just dealt with
InHand == sp_playlists[Len(log)]

\* C15: a description call is made only after a successful add and only for a
\* playlist with a description while add_playlist_description is set; when it
\* fails the reporter is invoked all the same, with the missing tracks; and
\* a reporter whose write or delete fails raises nothing and the next playlist
\* is taken up.
C15_CosmeticFailuresSwallowed ==
    /\ \A i \in CallsOf("describe") :
          /\ \E j \in CallsOf("add") : j < i /\ calls[j].ok
          /\ InHand.description # ""
          /\ userInputs.add_playlist_description
          /\ (Finished /\ ~calls[i].ok) =>
                /\ raised = "none"
                /\ \E k \in CallsOf("persist") :
                      /\ k > i
                      /\ calls[k].name = InHand.name
                      /\ calls[k].rows = missing_tracks
                      /\ calls[k].flag = userInputs.write_missing_as_csv
    /\ \A k \in CallsOf("persist") :
          ~calls[k].ok =>
              /\ raised = "none"
              /\ Finished
              /\ pc = IF Len(log) < Len(sp_playlists) THEN "fetch" ELSE "idle"
              /\ pidx = IF Len(log) < Len(sp_playlists) THEN Len(log) + 1 ELSE Len(log)

\* C15 witness: the description call failed, the write of the report failed
\* after it, and the second playlist is next
C15_Witness ==
    /\ Finished
    /\ pc = "fetch"
    /\ pidx = 2
    /\ \E i \in CallsOf("describe") : \E k \in CallsOf("persist") :
          /\ ~calls[i].ok
          /\ i < k
          /\ ~calls[k].ok
          /\ calls[k].flag
          /\ calls[k].rows # <<>>

\* the latest call of the reporter; pre.csv is the store it found
LastCall == calls[Len(calls)]

\* C16: after an enabled persist without I/O failure the artifact of the name
\* exists exactly when there are missing tracks, and then holds a header and
\* one row per missing track, in order, whatever it held before; a persist of
\* no missing tracks on an absent artifact fails in nothing and changes
\* nothing; and the same persist made a second time leaves the store as the
\* first left it.
C16_ReporterPostState ==
    (calls # <<>> /\ LastCall.flag) =>
        /\ LastCall.ok =>
              /\ csv[LastCall.name].exists <=> LastCall.rows # <<>>
              /\ LastCall.rows # <<>> =>
                    /\ csv[LastCall.name].header
                    /\ Len(csv[LastCall.name].rows) = Len(LastCall.rows)
                    /\ \A i \in 1..Len(LastCall.rows) :
                          csv[LastCall.name].rows[i]
                              = <<LastCall.rows[i].title, LastCall.rows[i].artist,
                                  LastCall.rows[i].album, LastCall.rows[i].url>>
        /\ (LastCall.rows = <<>> /\ ~pre.csv[LastCall.name].exists) =>
              LastCall.ok /\ csv = pre.csv
        /\ (Len(calls) = 2 /\ calls[1].ok /\ calls[2].ok) => csv = pre.csv

\* C16 witness: a file with other rows was overwritten by the first call and
\* the second call left it as it was
C16_Witness ==
    /\ Len(calls) = 2
    /\ calls[1] = calls[2]
    /\ LastCall.flag /\ LastCall.ok
    /\ Len(LastCall.rows) = 2
    /\ csv[LastCall.name].exists
    /\ Len(csv[LastCall.name].rows) = 2
    /\ csv = pre.csv

\* C17: a disabled persist leaves the whole store as it was, and an enabled
\* one leaves the artifact of every other name as it was.
C17_ReporterFrame ==
    calls # <<>> =>
        /\ ~LastCall.flag => csv = pre.csv
        /\ \A n \in PlaylistNames \ {LastCall.name} : csv[n] = pre.csv[n]

\* C17 witness: disabled, nothing missing, and a stale artifact of the name
\* still there, beside an artifact of the other name
C17_Witness ==
    /\ Len(calls) = 1
    /\ ~LastCall.flag
    /\ LastCall.rows = <<>>
    /\ csv[LastCall.name].exists
    /\ \E n \in PlaylistNames \ {LastCall.name} : csv[n].exists

\* C18: the similarity of two strings is the same both ways round, and the
\* score of a candidate against a track is the score of the pair with the
\* titles, the artists and the albums exchanged.
C18_SimilaritySymmetric ==
    scores.done =>
        /\ scores.ab = scores.ba
        /\ scores.direct = scores.swapped

\* C18 witness: titles of different lengths that share a letter, artists that
\* differ, and a score above zero
C18_Witness ==
    /\ scores.done
    /\ Len(scores.candidate.title) # Len(scores.track.title)
    /\ scores.candidate.title # <<>>
    /\ scores.track.title # <<>>
    /\ scores.ab > 0
    /\ scores.ab < RatioScale
    /\ scores.candidate.artist # scores.track.artist
    /\ scores.direct > scores.ab * WeightTitle

RECURSIVE IsSubsequence(_, _)
IsSubsequence(s, t) ==
    IF s = <<>> THEN TRUE
    ELSE IF t = <<>> THEN FALSE
    ELSE IF Head(s) = Head(t) THEN IsSubsequence(Tail(s), Tail(t))
    ELSE IsSubsequence(s, Tail(t))

\* C19: every track taken so far has had exactly one of three ends: its
\* identifier was appended to the matched identifiers, it was dropped because
\* its identifier was matched already, or it was appended to the missing
\* tracks; the missing tracks are a subsequence of the tracks taken, in their
\* order; matched and missing together are never more than the tracks; and a
\* batch that ends with nothing matched has every track missing, in order.
C19_Conservation ==
    /\ Len(available_ids) + Len(missing_tracks) + last.dropped = tidx - 1
    /\ Len(available_ids) + Len(missing_tracks) <= Len(tracks)
    /\ IsSubsequence(missing_tracks, SubSeq(tracks, 1, tidx - 1))
    /\ (pc = "resolved" /\ available_ids = <<>>) => missing_tracks = tracks
    /\ last.n > 0 =>
          LET own == OwnAnswer(last.track, last.candidates,
                               userInputs.match_confidence_threshold)
              gained == Len(available_ids) - Len(last.before.ids)
              reported == Len(missing_tracks) - Len(last.before.missing)
              dropped == IF last.outcome = "duplicate" THEN 1 ELSE 0
          IN  /\ last.outcome \in {"matched", "duplicate", "missing"}
              /\ gained \in {0, 1} /\ reported \in {0, 1}
              /\ gained + reported + dropped = 1
              /\ gained = 1 <=> (own # Unresolved /\ own \notin Range(last.before.ids))
              /\ dropped = 1 <=> (own # Unresolved /\ own \in Range(last.before.ids))
              /\ reported = 1 <=> own = Unresolved
              /\ SubSeq(available_ids, 1, Len(last.before.ids)) = last.before.ids
              /\ SubSeq(missing_tracks, 1, Len(last.before.missing)) = last.before.missing

\* C19 witness: a batch of two tracks ends with one identifier and no missing
\* track, the second track having been dropped
C19_Witness ==
    /\ pc = "resolved"
    /\ Len(tracks) = 2
    /\ tracks[1] # tracks[2]
    /\ last.dropped = 1
    /\ Len(available_ids) = 1
    /\ missing_tracks = <<>>

\* the reconciliation of the playlist just dealt with was given up: a delete,
\* a create or an add failed
Aborted ==
    \E i \in 1..Len(calls) : calls[i].op \in {"delete", "create", "add"} /\ ~calls[i].ok

\* no tracks were fetched for the playlist just dealt with
Skipped == LastLog.fetch \in {"empty", "fail_first", "fail_later"}

\* C20: for a playlist whose reconciliation was given up after a failed delete,
\* create or add, and for a playlist skipped for want of tracks, the reporter
\* is not invoked and the artifact store is as it was when the playlist began.
C20_AbortLeavesReport ==
    (Finished /\ (Aborted \/ Skipped)) =>
        /\ CallsOf("persist") = {}
        /\ csv = pre.csv

\* C20 witness: the report is enabled, an earlier run left an artifact of the
\* name, this run's add failed with other tracks missing, and the artifact is
\* still what it was
C20_Witness ==
    /\ Finished
    /\ userInputs.write_missing_as_csv
    /\ \E i \in CallsOf("add") : ~calls[i].ok
    /\ pre.csv[LastLog.name].exists
    /\ pre.csv[LastLog.name].rows # [i \in 1..Len(missing_tracks) |-> Row(missing_tracks[i])]
    /\ csv[LastLog.name] = pre.csv[LastLog.name]

\* RUN_ONCE holds one of the values that switch it on
RunOnce == env.RUN_ONCE \in {"1", "TRUE", " on "}

\* a required destination setting is unset or empty
RequiredMissing ==
    \E v \in {env.NAVIDROME_BASE_URL, env.NAVIDROME_USERNAME, env.NAVIDROME_PASSWORD} :
        v \in {Unset, ""}

\* run_sync_cycle has returned at least once and main is past the call
CycleOver == main.cycles > 0 /\ main.pc \in {"returned", "exit", "loop", "sleep"}

\* C21: with RUN_ONCE on, main never begins a second cycle and after the
\* first one it can only leave; without it main leaves only after a cycle that
\* returned False; a cycle returns False exactly when a required destination
\* setting is missing or the connection attempt raised; a cycle without a
\* source client, or whose spotify_playlist_sync raised, returns True, and
\* main is then back at the head of the loop, after the sleep if there is one.
C21_OuterLoop ==
    /\ RunOnce =>
          /\ main.cycles <= 1
          /\ main.cycles = 1 => main.pc \notin {"loop", "sleep"}
    /\ main.pc = "exit" => main.cycles >= 1
    /\ (main.pc = "exit" /\ ~RunOnce) => ~main.result
    /\ CycleOver =>
          /\ ~main.result <=> (RequiredMissing \/ main.connect = "raises")
          /\ main.client \in {"absent", "auth_error"} => main.result
          /\ (main.entered /\ raised # "none") => main.result
          /\ (main.result /\ ~RunOnce) => main.pc # "exit"

\* C21 witness: spotify_playlist_sync raised in the first cycle and main has
\* begun a second one
C21_Witness ==
    /\ ~RunOnce
    /\ main.cycles = 2
    /\ main.pc = "connect"
    /\ raised = "destination"
    /\ env.RUN_ONCE = "no"

====
